---- MODULE Spec2Model ----
(***************************************************************************)
(* Model of productivity.py/src/lib/libtags.py: the yaml encoded tag       *)
(* hierarchy (class TagHierachy), the Tag component list (class Tag), the  *)
(* tag line of a document (class DocumentTagHandler), and of the command   *)
(* line program productivity.py/src/tags.py that calls them.               *)
(*                                                                         *)
(* A node of the hierarchy is a Python str, a one-key dict or a list.  All *)
(* three are written as records of one shape so that they can be compared: *)
(*   str   s          [t |-> "str",  s |-> s,  v |-> <<>>]                 *)
(*   dict  {k: val}   [t |-> "dict", s |-> k,  v |-> <<val>>]              *)
(*   list  [x1,...]   [t |-> "list", s |-> "", v |-> <<x1,...>>]           *)
(* A dict's value is a str or a list (the persisted format).  A place in   *)
(* the hierarchy (the object a Python name such as `node` refers to) is    *)
(* the sequence of indices in .v that leads to it from self.tags.          *)
(***************************************************************************)
EXTENDS Integers, Sequences, FiniteSets, TLC

VARIABLES
    tags,       \* self.tags: the loaded hierarchy, a dict with the key "tags"
    tags_file,  \* self.tags_file: the text safe_tags writes, as its lines
    last,       \* the latest call on the object (see Call)
    nops,       \* the number of operations called so far
    arg,        \* the Tag object handed to the latest call, as it is now
    document,   \* the document file, as the lines readlines() gives
    disk,       \* the tags file on disk, as its lines
    dry_run,    \* args.dry_run of the invocation
    pc,         \* where the invocation of tags.py is (see SpecCli)
    writes      \* how often the tags file was opened for writing

vars == <<tags, tags_file, last, nops, arg, document, disk, dry_run, pc, writes>>

\* The fields of the TagHierachy object.
object == <<tags, tags_file>>

\* What an invocation of tags.py has beside the object.
invocation == <<disk, dry_run, pc, writes>>

(***************************************************************************)
(* Bounds of the model.                                                    *)
(***************************************************************************)
\* Labels in a loaded hierarchy (the key "tags" not counted).
MaxSize == 3
\* Components of a tag given to an operation.
MaxPathLen == 3
\* Operations called on one TagHierachy object.
MaxOps == 1
\* Lines of a text given to add_blank_lines.
MaxLines == 3
\* Labels in the hierarchy a followed Tag object is handed to, and in the
\* tags file of an invocation of tags.py.
MaxSmall == 1
\* Lines of a document.
MaxDocLines == 3
\* Entries of a line of a document.
MaxEntries == 2
\* Labels of a hierarchy whose text is decoded after a mutation, and
\* components of the tag the mutation is called with.
MaxText == 2

\* Tag components used by the model: "a" is a substring of "ab".
Names == {"a", "ab", "c"}

(***************************************************************************)
(* Nodes and places.                                                       *)
(***************************************************************************)
Str(s) == [t |-> "str", s |-> s, v |-> <<>>]

Dict(k, val) == [t |-> "dict", s |-> k, v |-> <<val>>]

List(items) == [t |-> "list", s |-> "", v |-> items]

RECURSIVE Get(_, _)
\* The object at place p below node n.
Get(n, p) == IF p = <<>> THEN n ELSE Get(n.v[Head(p)], Tail(p))

RECURSIVE Set(_, _, _)
\* Node n with the object at place p replaced by x (an in-place mutation).
Set(n, p, x) ==
    IF p = <<>> THEN x
    ELSE [n EXCEPT !.v[Head(p)] = Set(@, Tail(p), x)]

\* self.tags["tags"]: the place of the root list.
RootList == <<1>>

(***************************************************************************)
(* class Tag: a list of components.                                        *)
(***************************************************************************)
RECURSIVE str(_)
\* Tag.__str__: "::".join(self.data)
str(tag) ==
    IF tag = <<>> THEN ""
    ELSE IF Len(tag) = 1 THEN tag[1]
    ELSE tag[1] \o "::" \o str(Tail(tag))

\* Tag.get_parents: self.data[:-1]
get_parents(tag) == SubSeq(tag, 1, Len(tag) - 1)

\* Tag.get_direct_parent: self.data[-2] (None, written "", for one component)
get_direct_parent(tag) == IF Len(tag) = 1 THEN "" ELSE tag[Len(tag) - 1]

\* Tag.get_leaf: self.data[-1]
get_leaf(tag) == tag[Len(tag)]

\* Tag.get_root_tag: self.data[0]
get_root_tag(tag) == tag[1]

\* A removal that stops at the last component.
remove_root_tag_keeping_one(tag) == IF Len(tag) = 1 THEN tag ELSE Tail(tag)

\* Tag.remove_root_tag: self.data.pop(0)
remove_root_tag(tag) == Tail(tag)

(***************************************************************************)
(* yaml.dump(self.tags), split into lines: block style, a list below a     *)
(* key is not indented further than the key's own "- ".                     *)
(***************************************************************************)
RECURSIVE Spaces(_)
Spaces(n) == IF n = 0 THEN "" ELSE " " \o Spaces(n - 1)

RECURSIVE DumpList(_, _, _)
\* The lines of the items i.. of list node l, written at column ind.
DumpList(l, i, ind) ==
    IF i > Len(l.v) THEN <<>>
    ELSE LET item == l.v[i]
             head == Spaces(ind) \o "- " \o item.s
             own  == IF item.t = "str" THEN <<head>>
                     ELSE IF item.v[1].t = "str"
                          THEN <<head \o ": " \o item.v[1].s>>
                     ELSE IF item.v[1].v = <<>> THEN <<head \o ": []">>
                     ELSE <<head \o ":">> \o DumpList(item.v[1], 1, ind + 2)
         IN own \o DumpList(l, i + 1, ind)

\* yaml.dump(self.tags).split("\n"): the text ends with a line break, so
\* the last element is the empty string.
Dump(tree) ==
    IF tree.v[1].v = <<>> THEN <<tree.s \o ": []", "">>
    ELSE <<tree.s \o ":">> \o DumpList(tree.v[1], 1, 0) \o <<"">>

(***************************************************************************)
(* The hierarchies a tags file can hold: at most MaxSize labels, no two    *)
(* children of one list with the same label.                               *)
(***************************************************************************)
\* The labels of the children in a list.
Labels(items) == {items[i].s : i \in 1..Len(items)}

RECURSIVE ItemsOfSize(_), ListsOfSize(_)
\* The list items (str or dict) that hold exactly n labels.
ItemsOfSize(n) ==
    IF n = 0 THEN {}
    ELSE (IF n = 1 THEN {Str(s) : s \in Names} ELSE {})
         \cup (IF n = 2 THEN {Dict(k, Str(s)) : k \in Names, s \in Names} ELSE {})
         \cup {Dict(k, List(l)) : k \in Names, l \in ListsOfSize(n - 1)}

\* The lists that hold exactly n labels, siblings labelled differently.
ListsOfSize(n) ==
    IF n = 0 THEN {<<>>}
    ELSE UNION {
            UNION {{<<it>> \o rest : rest \in {r \in ListsOfSize(n - j) :
                                                  it.s \notin Labels(r)}}
                   : it \in ItemsOfSize(j)}
            : j \in 1..n}

\* The values of self.tags after load_tags.
Hierarchies ==
    {Dict("tags", List(l)) : l \in UNION {ListsOfSize(n) : n \in 0..MaxSize}}

(***************************************************************************)
(* pyaoi, the algorithms on iterables the library calls: find and find_if  *)
(* return the first index (from 0) that matches, -1 when there is none.    *)
(***************************************************************************)
\* Python's `a in b` for two str: a is a substring of b.
IsSubstring(a, b) ==
    \E i \in 1..(Len(b) - Len(a) + 1) : SubSeq(b, i, i + Len(a) - 1) = a

\* pyaoi.find_if(items, P) + 1, for the items whose indices are in hits:
\* the first matching position from 1, and 0 for pyaoi's -1.
find_if(hits) ==
    IF hits = {} THEN 0 ELSE CHOOSE i \in hits : \A j \in hits : i <= j

(***************************************************************************)
(* TagHierachy.add_tag.  An operation's state while it runs:               *)
(*   tags, tags_file  the object's two fields                              *)
(*   node             the place the local name `node` refers to            *)
(*   ret              the call has returned                                *)
(*   err              the exception that ended it, "" for none             *)
(*   tag              the caller's Tag object, which remove_root_tag       *)
(*                    shortens in place                                    *)
(***************************************************************************)
Start(tree, file, tag) ==
    [tags |-> tree, tags_file |-> file, node |-> RootList, ret |-> FALSE,
     err |-> "", tag |-> tag]

RECURSIVE add_tag_loop(_, _, _, _, _)
\* Lines 316-328: `for i, list_item in enumerate(node)` over the list at
\* place lst, from item i on; parent and tag as left by lines 313-314.
\* The loop has no break: a matching dict rebinds `node` and the loop goes
\* on over the list it started with.
add_tag_loop(st, lst, i, parent, tag) ==
    IF i > Len(Get(st.tags, lst).v) THEN st
    ELSE LET list_item == Get(st.tags, lst \o <<i>>) IN
         IF list_item.t = "dict" /\ list_item.s = parent
         THEN LET promoted ==
                      IF list_item.v[1].t = "str"
                      THEN Set(st.tags, lst \o <<i, 1>>, List(<<list_item.v[1]>>))
                      ELSE st.tags
              IN add_tag_loop([st EXCEPT !.tags = promoted,
                                         !.node = lst \o <<i, 1>>],
                              lst, i + 1, parent, tag)
         ELSE IF list_item.t = "str" /\ list_item.s = parent
         THEN \* node[i] = {parent: str(tag)}, on what `node` is bound to now
              IF i <= Len(Get(st.tags, st.node).v)
              THEN LET changed == Set(st.tags, st.node \o <<i>>,
                                      Dict(parent, Str(str(tag))))
                   IN [st EXCEPT !.tags = changed, !.tags_file = Dump(changed),
                                 !.ret = TRUE]
              ELSE [st EXCEPT !.err = "IndexError", !.ret = TRUE]
         ELSE add_tag_loop(st, lst, i + 1, parent, tag)

\* An append at the list reached that leaves self.tags_file as it was.
add_tag_without_dump(st, tag) ==
    LET items == Get(st.tags, st.node).v
    IN [st EXCEPT !.tags = Set(st.tags, st.node,
                               List(Append(items, Str(str(tag))))),
                  !.ret = TRUE]

RECURSIVE add_tag_rec(_, _)
\* Lines 301-330: add_tag(tag, node) with node a list (a dict's value is
\* made a list before it becomes `node`, so line 307 never holds).
add_tag_rec(st, tag) ==
    IF get_parents(tag) = <<>>
    THEN LET items   == Get(st.tags, st.node).v
             changed == Set(st.tags, st.node, List(Append(items, Str(str(tag)))))
         IN [st EXCEPT !.tags = changed, !.tags_file = Dump(changed),
                       !.ret = TRUE]
    ELSE LET parent == get_direct_parent(tag)
             rest   == remove_root_tag(tag)
             after  == add_tag_loop([st EXCEPT !.tag = rest], st.node, 1,
                                    parent, rest)
         IN IF after.ret THEN after ELSE add_tag_rec(after, rest)

\* Lines 295-297: the first call starts at self.tags["tags"].
add_tag(tree, file, tag) == add_tag_rec(Start(tree, file, tag), tag)

(***************************************************************************)
(* TagHierachy.rename_tag.                                                 *)
(***************************************************************************)
RECURSIVE rename_tag_loop(_, _, _, _, _)
\* Lines 261-279: the loop over the list at place lst from item i on; it
\* ends at the first item that is a dict with the key parent or the str
\* parent.
rename_tag_loop(st, lst, i, parent, new_tag) ==
    IF i > Len(Get(st.tags, lst).v) THEN st
    ELSE LET list_item == Get(st.tags, lst \o <<i>>) IN
         IF list_item.t = "dict" /\ list_item.s = parent
         THEN IF list_item.v[1].t = "str"
              THEN \* list_item[parent] = str(new_tag); dump; return
                   LET changed == Set(st.tags, lst \o <<i, 1>>, Str(str(new_tag)))
                   IN [st EXCEPT !.tags = changed, !.tags_file = Dump(changed),
                                 !.ret = TRUE]
              ELSE [st EXCEPT !.node = lst \o <<i, 1>>]
         ELSE IF list_item.t = "str" /\ list_item.s = parent
         THEN \* node[i] = {parent: []}; node = node[i][parent]
              [st EXCEPT !.tags = Set(st.tags, lst \o <<i>>,
                                      Dict(parent, List(<<>>))),
                         !.node = lst \o <<i, 1>>]
         ELSE rename_tag_loop(st, lst, i + 1, parent, new_tag)

\* Lines 232-248: the direct parent's list is reached.  i_tag is the first
\* item that is, or as a str contains, str(old_tag), or that is a dict with
\* that key; pyaoi's -1 makes node[i_tag] the last item.
rename_tag_here(st, old_tag, new_tag) ==
    LET items == Get(st.tags, st.node).v
        old   == str(old_tag)
        i_tag == find_if({i \in 1..Len(items) :
                            IF items[i].t = "str"
                            THEN items[i].s = old \/ IsSubstring(old, items[i].s)
                            ELSE items[i].s = old})
        at    == IF i_tag = 0 THEN Len(items) ELSE i_tag
    IN  IF items = <<>> THEN [st EXCEPT !.err = "IndexError", !.ret = TRUE]
        ELSE IF items[at].t = "str"
        THEN LET changed == Set(st.tags, st.node \o <<at>>, Str(str(new_tag)))
             IN [st EXCEPT !.tags = changed, !.tags_file = Dump(changed),
                           !.ret = TRUE]
        ELSE IF items[at].s # old
        THEN \* node[i_tag].pop(str(old_tag)) on a dict without that key
             [st EXCEPT !.err = "KeyError", !.ret = TRUE]
        ELSE LET changed == Set(st.tags, st.node \o <<at>>,
                                Dict(str(new_tag), items[at].v[1]))
             IN [st EXCEPT !.tags = changed, !.tags_file = Dump(changed),
                           !.ret = TRUE]

RECURSIVE rename_tag_rec(_, _, _)
\* Lines 231-281: rename_tag(old_tag, new_tag, node) with node a list (line
\* 252 never holds: `node` is only ever bound to a list).
rename_tag_rec(st, old_tag, new_tag) ==
    IF get_parents(old_tag) = <<>> THEN rename_tag_here(st, old_tag, new_tag)
    ELSE LET parent == get_root_tag(old_tag)
             rest   == remove_root_tag(old_tag)
             after  == rename_tag_loop([st EXCEPT !.tag = rest], st.node, 1,
                                       parent, new_tag)
         IN IF after.ret THEN after ELSE rename_tag_rec(after, rest, new_tag)

\* Lines 225-227.
rename_tag(tree, file, old_tag, new_tag) ==
    rename_tag_rec(Start(tree, file, old_tag), old_tag, new_tag)

(***************************************************************************)
(* TagHierachy.remove_tag.                                                 *)
(***************************************************************************)
\* `list_item == tag` (line 353) compares a str with a Tag: UserList.__eq__
\* compares tag.data, a list, with the str, and a list never equals a str.
StrEqTag(s, tag) == FALSE

RECURSIVE remove_tag_loop(_, _, _)
\* Lines 351-355: `tag in list_item` on a dict hashes the Tag, which as a
\* UserList has no hash: TypeError.  node.pop(i) shortens the list the
\* loop runs over.
remove_tag_loop(st, i, tag) ==
    LET items == Get(st.tags, st.node).v IN
    IF i > Len(items) THEN st
    ELSE IF items[i].t = "dict"
    THEN [st EXCEPT !.err = "TypeError", !.ret = TRUE]
    ELSE IF StrEqTag(items[i].s, tag)
    THEN remove_tag_loop(
             [st EXCEPT !.tags = Set(st.tags, st.node,
                                     List(SubSeq(items, 1, i - 1)
                                          \o SubSeq(items, i + 1, Len(items))))],
             i + 1, tag)
    ELSE remove_tag_loop(st, i + 1, tag)

RECURSIVE remove_tag_rec(_, _)
\* Lines 350-374.  In the descent (lines 367-372) the loop variable is the
\* (index, item) pair of enumerate, never a dict: `node` stays what it is.
remove_tag_rec(st, tag) ==
    IF get_parents(tag) = <<>>
    THEN LET after == remove_tag_loop(st, 1, tag)
         IN IF after.ret THEN after
            ELSE [after EXCEPT !.tags_file = Dump(after.tags), !.ret = TRUE]
    ELSE LET rest == remove_root_tag(tag)
         IN remove_tag_rec([st EXCEPT !.tag = rest], rest)

\* Lines 344-346.
remove_tag(tree, file, tag) == remove_tag_rec(Start(tree, file, tag), tag)

(***************************************************************************)
(* TagHierachy.list_tags and list_child_tags.                              *)
(***************************************************************************)
\* `x in paths` for a list of lists.
InList(x, paths) == \E i \in 1..Len(paths) : paths[i] = x

RECURSIVE AddPrefixes(_, _, _)
\* Lines 411-413: append cur_path[:i], cur_path[:i+1], ... where missing.
AddPrefixes(paths, cur_path, i) ==
    IF i > Len(cur_path) THEN paths
    ELSE LET prefix == SubSeq(cur_path, 1, i)
         IN AddPrefixes(IF InList(prefix, paths) THEN paths
                        ELSE Append(paths, prefix),
                        cur_path, i + 1)

RECURSIVE list_tags_rec(_, _, _, _)
\* Lines 407-425: list_tags(paths, cur_path, node); for a list, the
\* children from i on.  Returns paths.
list_tags_rec(paths, cur_path, node, i) ==
    IF node.t = "str" THEN AddPrefixes(paths, Append(cur_path, node.s), 1)
    ELSE IF node.t = "dict"
    THEN list_tags_rec(paths, Append(cur_path, node.s), node.v[1], 1)
    ELSE IF i > Len(node.v) THEN paths
    ELSE list_tags_rec(list_tags_rec(paths, cur_path, node.v[i], 1),
                       cur_path, node, i + 1)

\* Lines 399-403: the first call starts at self.tags, the dict with the
\* key "tags".
list_tags(tree) == list_tags_rec(<<>>, <<>>, tree, 1)

RECURSIVE list_child_tags_rec(_, _, _, _, _)
\* Lines 458-478: the same walk; parent_tag is handed down and never read.
list_child_tags_rec(parent_tag, child_tags, cur_tag, node, i) ==
    IF node.t = "str" THEN AddPrefixes(child_tags, Append(cur_tag, node.s), 1)
    ELSE IF node.t = "dict"
    THEN list_child_tags_rec(parent_tag, child_tags, Append(cur_tag, node.s),
                             node.v[1], 1)
    ELSE IF i > Len(node.v) THEN child_tags
    ELSE list_child_tags_rec(
             parent_tag,
             list_child_tags_rec(parent_tag, child_tags, cur_tag, node.v[i], 1),
             cur_tag, node, i + 1)

\* Lines 450-454.
list_child_tags(tree, parent_tag) ==
    list_child_tags_rec(parent_tag, <<>>, <<>>, tree, 1)

(***************************************************************************)
(* TagHierachy.is_leaf_tag_ambiguous, try_shorten_tag_path and             *)
(* list_tags_short_paths.                                                  *)
(***************************************************************************)
\* pyaoi.mismatch(a, b) + 1: the first position (from 1) that both have and
\* at which they differ, 0 for None.
mismatch(a, b) ==
    find_if({i \in 1..(IF Len(a) < Len(b) THEN Len(a) ELSE Len(b)) :
                a[i] # b[i]})

\* Lines 480-487: any(...) over the paths list_tags() returns.
is_leaf_tag_ambiguous(tree, tag) ==
    LET leaf_tag == get_leaf(tag)
        paths    == list_tags(tree)
    IN \E k \in 1..Len(paths) :
          LET path == paths[k]
          IN  /\ path # tag
              /\ mismatch(path, tag) # 0
              /\ \E i \in 1..Len(path) : path[i] = leaf_tag

\* Lines 489-495.
try_shorten_tag_path(tree, tag) ==
    IF ~is_leaf_tag_ambiguous(tree, tag) THEN <<get_leaf(tag)>> ELSE tag

\* Lines 497-503: pyaoi.transform calls try_shorten_tag_path on each path
\* of list_tags(), a plain list: its first statement, tag.get_leaf(),
\* raises AttributeError.  Without paths nothing is called.
list_tags_short_paths(tree) ==
    IF list_tags(tree) = <<>> THEN [err |-> "", ret |-> <<>>]
    ELSE [err |-> "AttributeError", ret |-> <<>>]

(***************************************************************************)
(* TagHierachy.reorder_list_items, add_blank_lines and lint.               *)
(***************************************************************************)
\* The sort key of line 181: isinstance(item, dict).
IsDict(item) == item.t = "dict"

RECURSIVE Insert(_, _)
\* list.sort is stable: an item goes behind every item whose key is not
\* greater than its own (False < True).
Insert(sorted, item) ==
    IF sorted = <<>> THEN <<item>>
    ELSE LET n == Len(sorted) IN
         IF IsDict(sorted[n]) /\ ~IsDict(item)
         THEN Append(Insert(SubSeq(sorted, 1, n - 1), item), sorted[n])
         ELSE Append(sorted, item)

RECURSIVE SortedUpTo(_, _)
\* The first n items of a list, sorted by the key.
SortedUpTo(items, n) ==
    IF n = 0 THEN <<>> ELSE Insert(SortedUpTo(items, n - 1), items[n])

\* A sort by the same key that is not stable: the dicts come out in the
\* reverse of the order they had.
sort_unstable(items) ==
    LET IsStr(item) == ~IsDict(item)
        dicts == SelectSeq(items, IsDict)
    IN SelectSeq(items, IsStr)
       \o [i \in 1..Len(dicts) |-> dicts[Len(dicts) + 1 - i]]

\* A sort that keeps the str items only: the dict items are lost.
sort_leaves_only(items) ==
    LET IsStr(item) == ~IsDict(item)
    IN SelectSeq(items, IsStr)

\* node.sort(key=lambda item: isinstance(item, dict))
sort(items) == SortedUpTo(items, Len(items))

\* One level only: the list below a key is sorted, the lists below it are
\* not visited.
reorder_list_items_flat(node) ==
    IF node.t = "dict" /\ node.v[1].t = "list"
    THEN Dict(node.s, List(sort(node.v[1].v)))
    ELSE node

RECURSIVE reorder_list_items_rec(_)
\* Lines 163-181: reorder_list_items(node), the node as the call leaves
\* it.  A dict with a list is passed on to its list; a dict with a str
\* stays; in a list every dict item is visited, then the list is sorted.
reorder_list_items_rec(node) ==
    IF node.t = "dict" /\ node.v[1].t = "list"
    THEN Dict(node.s, reorder_list_items_rec(node.v[1]))
    ELSE IF node.t = "list"
    THEN List(sort([i \in 1..Len(node.v) |->
                       IF IsDict(node.v[i])
                       THEN reorder_list_items_rec(node.v[i])
                       ELSE node.v[i]]))
    ELSE node

\* Lines 157-159: the first call starts at self.tags and dumps the result.
reorder_list_items(tree) ==
    LET changed == reorder_list_items_rec(tree)
    IN [tags |-> changed, tags_file |-> Dump(changed)]

\* pyaoi.find(line, ch) + 1: the column (from 1) of the first ch in the
\* line, 0 for pyaoi's -1.
find(line, ch) == find_if({i \in 1..Len(line) : SubSeq(line, i, i) = ch})

RECURSIVE add_blank_lines_loop(_, _, _)
\* Lines 192-202: the loop from line i on.  lines[i - 1] of the first line
\* is lines[-1], the last line.
add_blank_lines_loop(lines, i, new_lines) ==
    IF i > Len(lines) THEN new_lines
    ELSE LET indentation_level_cur  == find(lines[i], "-")
             indentation_level_prev ==
                 find(lines[IF i = 1 THEN Len(lines) ELSE i - 1], "-")
         IN add_blank_lines_loop(
                lines, i + 1,
                (IF /\ indentation_level_cur # 0
                    /\ indentation_level_prev # 0
                    /\ indentation_level_cur < indentation_level_prev
                 THEN Append(new_lines, "")
                 ELSE new_lines) \o <<lines[i]>>)

\* Lines 188-204, on the lines of self.tags_file.
add_blank_lines(file) == add_blank_lines_loop(file, 1, <<>>)

\* Lines 206-210.
lint(tree) ==
    LET reordered == reorder_list_items(tree)
    IN [tags |-> reordered.tags,
        tags_file |-> add_blank_lines(reordered.tags_file)]

(***************************************************************************)
(* DocumentTagHandler: the tags of a document are the comma separated      *)
(* entries of the line below the line "# Tags".  A document is the list    *)
(* readlines() gives: every line with its line break, the last one with    *)
(* or without.                                                             *)
(***************************************************************************)
\* One character of a str.
Char(text, i) == SubSeq(text, i, i)

\* A line without its line break, as splitlines() gives it.
StripBreak(line) ==
    IF Len(line) > 0 /\ Char(line, Len(line)) = "\n"
    THEN SubSeq(line, 1, Len(line) - 1)
    ELSE line

RECURSIVE writelines(_)
\* f.writelines(document): the text of the file.
writelines(lines) ==
    IF lines = <<>> THEN "" ELSE Head(lines) \o writelines(Tail(lines))

RECURSIVE readlines_from(_, _, _)
\* The lines of the text from position i on, cur the line begun before i.
readlines_from(text, i, cur) ==
    IF i > Len(text) THEN (IF cur = "" THEN <<>> ELSE <<cur>>)
    ELSE IF Char(text, i) = "\n"
    THEN <<cur \o "\n">> \o readlines_from(text, i + 1, "")
    ELSE readlines_from(text, i + 1, cur \o Char(text, i))

\* f.readlines() of a file with that text.
readlines(text) == readlines_from(text, 1, "")

\* Lines 542-554, counted from 1: the line below the first line "# Tags",
\* 0 (for -1) when there is no such line or nothing below it.
find_tags_line(lines) ==
    LET i_tags_list == find_if({i \in 1..Len(lines) :
                                   StripBreak(lines[i]) = "# Tags"})
    IN IF i_tags_list = 0 \/ i_tags_list = Len(lines) THEN 0
       ELSE i_tags_list + 1

\* \s of the regular expressions.
IsSpace(ch) == ch \in {" ", "\n"}

RECURSIVE SkipSpace(_, _)
\* \s* from position i: the position of the first character that is none.
SkipSpace(line, i) ==
    IF i <= Len(line) /\ IsSpace(Char(line, i)) THEN SkipSpace(line, i + 1)
    ELSE i

\* The pattern (?:(?<=^)|(?<=,))\s*word and, if comma, ,? matched at
\* position i: the position behind the match, 0 for no match.
MatchEnd(line, i, word, comma) ==
    LET from == SkipSpace(line, i)
        to   == from + Len(word)
    IN IF /\ (i = 1 \/ Char(line, i - 1) = ",")
          /\ to - 1 <= Len(line)
          /\ SubSeq(line, from, to - 1) = word
       THEN IF comma /\ to <= Len(line) /\ Char(line, to) = ","
            THEN to + 1 ELSE to
       ELSE 0

RECURSIVE re_sub(_, _, _, _, _)
\* re.sub(pattern, repl, line) from position i on: every match, from the
\* left, is replaced.
re_sub(line, i, word, comma, repl) ==
    IF i > Len(line) THEN ""
    ELSE LET end == MatchEnd(line, i, word, comma)
         IN IF end # 0 THEN repl \o re_sub(line, end, word, comma, repl)
            ELSE Char(line, i) \o re_sub(line, i + 1, word, comma, repl)

\* Lines 604-611, 643-650, 673-680: the changed list is printed or written;
\* afterwards the document is what readlines() gives for the file.
Written(lines, changed, dry) ==
    IF dry THEN [document |-> lines, writes |-> 0]
    ELSE [document |-> readlines(writelines(changed)), writes |-> 1]

\* Nothing done: lines 595-596, 632-633, 668-669.
NotWritten(lines) == [document |-> lines, writes |-> 0]

\* DocumentTagHandler.remove_tag, lines 588-611.
document_remove_tag(lines, tag, dry) ==
    LET i_tags_line == find_tags_line(lines)
    IN IF i_tags_line = 0 THEN NotWritten(lines)
       ELSE Written(lines,
                    [lines EXCEPT ![i_tags_line] =
                        re_sub(@, 1, str(tag), TRUE, "")],
                    dry)

\* DocumentTagHandler.rename_tag, lines 625-650.
document_rename_tag(lines, old_name, new_name, dry) ==
    LET i_tags_line == find_tags_line(lines)
    IN IF i_tags_line = 0 THEN NotWritten(lines)
       ELSE Written(lines,
                    [lines EXCEPT ![i_tags_line] =
                        re_sub(@, 1, str(old_name), FALSE, str(new_name))],
                    dry)

\* DocumentTagHandler.add_tag, lines 661-680.
document_add_tag(lines, tag, dry) ==
    LET i_tags_line == find_tags_line(lines)
    IN IF i_tags_line = 0 THEN NotWritten(lines)
       ELSE Written(lines,
                    [lines EXCEPT ![i_tags_line] = @ \o "," \o str(tag)],
                    dry)

(***************************************************************************)
(* The state machine: one TagHierachy object, loaded from a tags file, and *)
(* the operations called on it.  `last` records the latest call: its name, *)
(* its arguments, self.tags before it, the exception it raised ("" for     *)
(* none) and the list it returned.                                         *)
(***************************************************************************)
RECURSIVE SeqsOfLen(_)
SeqsOfLen(n) ==
    IF n = 0 THEN {<<>>}
    ELSE {Append(q, x) : q \in SeqsOfLen(n - 1), x \in Names}

\* The tags an operation is called with: Tag(list of components).
Tags == UNION {SeqsOfLen(n) : n \in 1..MaxPathLen}

Call(op, tag, new, err, ret) ==
    [op |-> op, tag |-> tag, new |-> new, pre |-> tags, file |-> tags_file,
     doc |-> document, err |-> err, ret |-> ret]

\* No call yet: the object as the constructor leaves it.
Loaded ==
    [op |-> "load_tags", tag |-> <<>>, new |-> <<>>, pre |-> tags,
     file |-> tags_file, doc |-> document, err |-> "", ret |-> <<>>]

\* An object that is used as a library: no invocation of tags.py.
NoInvocation ==
    /\ disk = tags_file
    /\ dry_run = FALSE
    /\ pc = "library"
    /\ writes = 0

Init ==
    /\ tags \in Hierarchies
    /\ tags_file = Dump(tags)
    /\ document = <<>>
    /\ last = Loaded
    /\ nops = 0
    /\ arg = <<>>
    /\ NoInvocation

AddTag ==
    /\ nops < MaxOps
    /\ \E tag \in Tags :
         LET r == add_tag(tags, tags_file, tag) IN
         /\ tags' = r.tags
         /\ tags_file' = r.tags_file
         /\ last' = Call("add_tag", tag, <<>>, r.err, <<>>)
         /\ arg' = r.tag
    /\ nops' = nops + 1
    /\ UNCHANGED <<document, invocation>>

RenameTag ==
    /\ nops < MaxOps
    /\ \E old_tag \in Tags, new_name \in Names :
         LET r == rename_tag(tags, tags_file, old_tag, <<new_name>>) IN
         /\ tags' = r.tags
         /\ tags_file' = r.tags_file
         /\ last' = Call("rename_tag", old_tag, <<new_name>>, r.err, <<>>)
         /\ arg' = r.tag
    /\ nops' = nops + 1
    /\ UNCHANGED <<document, invocation>>

RemoveTag ==
    /\ nops < MaxOps
    /\ \E tag \in Tags :
         LET r == remove_tag(tags, tags_file, tag) IN
         /\ tags' = r.tags
         /\ tags_file' = r.tags_file
         /\ last' = Call("remove_tag", tag, <<>>, r.err, <<>>)
         /\ arg' = r.tag
    /\ nops' = nops + 1
    /\ UNCHANGED <<document, invocation>>

ListTags ==
    /\ nops < MaxOps
    /\ last' = Call("list_tags", <<>>, <<>>, "", list_tags(tags))
    /\ nops' = nops + 1
    /\ UNCHANGED <<object, arg, document, invocation>>

ListChildTags ==
    /\ nops < MaxOps
    /\ \E parent_tag \in Tags :
         /\ last' = Call("list_child_tags", parent_tag, <<>>, "",
                         list_child_tags(tags, parent_tag))
         /\ arg' = parent_tag
    /\ nops' = nops + 1
    /\ UNCHANGED <<object, document, invocation>>

Next ==
    \/ AddTag
    \/ RenameTag
    \/ RemoveTag
    \/ ListTags
    \/ ListChildTags

Spec == Init /\ [][Next]_vars

(***************************************************************************)
(* One Tag object: its method remove_root_tag is called on it, or it is    *)
(* handed to an operation of a TagHierachy, which works on the object      *)
(* itself, not on a copy.                                                  *)
(***************************************************************************)
\* The hierarchies of at most MaxSmall labels.
SmallHierarchies ==
    {Dict("tags", List(l)) : l \in UNION {ListsOfSize(n) : n \in 0..MaxSmall}}

InitTag ==
    /\ arg \in Tags
    /\ tags \in SmallHierarchies
    /\ tags_file = Dump(tags)
    /\ document = <<>>
    /\ last = Loaded
    /\ nops = 0
    /\ NoInvocation

\* self.data.pop(0) raises IndexError on the empty list.
TagRemoveRootTag ==
    /\ nops < MaxOps
    /\ IF arg = <<>>
       THEN /\ last' = Call("remove_root_tag", arg, <<>>, "IndexError", <<>>)
            /\ arg' = arg
       ELSE /\ last' = Call("remove_root_tag", arg, <<>>, "", <<>>)
            /\ arg' = remove_root_tag(arg)
    /\ nops' = nops + 1
    /\ UNCHANGED <<object, document, invocation>>

TagToAddTag ==
    /\ nops < MaxOps
    /\ LET r == add_tag(tags, tags_file, arg) IN
         /\ tags' = r.tags
         /\ tags_file' = r.tags_file
         /\ last' = Call("add_tag", arg, <<>>, r.err, <<>>)
         /\ arg' = r.tag
    /\ nops' = nops + 1
    /\ UNCHANGED <<document, invocation>>

TagToRenameTag ==
    /\ nops < MaxOps
    /\ \E new_name \in Names :
         LET r == rename_tag(tags, tags_file, arg, <<new_name>>) IN
         /\ tags' = r.tags
         /\ tags_file' = r.tags_file
         /\ last' = Call("rename_tag", arg, <<new_name>>, r.err, <<>>)
         /\ arg' = r.tag
    /\ nops' = nops + 1
    /\ UNCHANGED <<document, invocation>>

TagToRemoveTag ==
    /\ nops < MaxOps
    /\ LET r == remove_tag(tags, tags_file, arg) IN
         /\ tags' = r.tags
         /\ tags_file' = r.tags_file
         /\ last' = Call("remove_tag", arg, <<>>, r.err, <<>>)
         /\ arg' = r.tag
    /\ nops' = nops + 1
    /\ UNCHANGED <<document, invocation>>

NextTag ==
    \/ TagRemoveRootTag
    \/ TagToAddTag
    \/ TagToRenameTag
    \/ TagToRemoveTag

SpecTag == InitTag /\ [][NextTag]_vars

\* The hierarchies of up to MaxText labels: enough for a str item turned
\* into a dict, a dict with a str and a dict item before a str item.
TextHierarchies ==
    {Dict("tags", List(l)) : l \in UNION {ListsOfSize(n) : n \in 0..MaxText}}

\* Tags of up to MaxText components: as deep as these hierarchies get.
TextTags == UNION {SeqsOfLen(n) : n \in 1..MaxText}

\* A hierarchy as load_tags() leaves it and a Tag to call a mutation with.
InitText ==
    /\ arg \in TextTags
    /\ tags \in TextHierarchies
    /\ tags_file = Dump(tags)
    /\ document = <<>>
    /\ last = Loaded
    /\ nops = 0
    /\ NoInvocation

(***************************************************************************)
(* One invocation of tags.py on a tags file (--tag_file): the object is    *)
(* constructed from the file, the one requested operation is called, and   *)
(* the file is written or printed.  An exception ends the program where    *)
(* it is raised.  pc is "start", "loaded", "ran", "raised" or "done".      *)
(***************************************************************************)
\* self.tags = {} and self.tags_file = "" (lines 128-130), before load_tags.
Unloaded == [t |-> "dict", s |-> "", v |-> <<>>]

\* The position of the ":" that ends a key: the first one that a blank
\* follows or that ends the text; 0 when the text is a plain str.
KeyEnd(text) ==
    find_if({i \in 1..Len(text) :
                /\ SubSeq(text, i, i) = ":"
                /\ (i = Len(text) \/ SubSeq(text, i + 1, i + 1) = " ")})

\* The node that a key and what follows its ":" on the line stand for, the
\* items of a list below the key given as below.
KeyNode(text, below) ==
    LET i    == KeyEnd(text)
        rest == SubSeq(text, i + 1, Len(text))
    IN IF rest = "" THEN Dict(SubSeq(text, 1, i - 1), List(below))
       ELSE IF rest = " []" THEN Dict(SubSeq(text, 1, i - 1), List(<<>>))
       ELSE Dict(SubSeq(text, 1, i - 1), Str(SubSeq(rest, 2, Len(rest))))

RECURSIVE load_items(_, _, _)
\* The items of the block sequence whose "- " stand at column ind, read
\* from line i on: v the items, i the first line behind them.
load_items(lines, i, ind) ==
    IF i > Len(lines) \/ find(lines[i], "-") # ind + 1
    THEN [v |-> <<>>, i |-> i]
    ELSE LET text  == SubSeq(lines[i], ind + 3, Len(lines[i]))
             below == IF KeyEnd(text) = Len(text) /\ text # ""
                      THEN load_items(lines, i + 1, ind + 2)
                      ELSE [v |-> <<>>, i |-> i + 1]
             item  == IF KeyEnd(text) = 0 THEN Str(text)
                      ELSE KeyNode(text, below.v)
             more  == load_items(lines, below.i, ind)
         IN [v |-> <<item>> \o more.v, i |-> more.i]

\* yaml.safe_load of a text in the block style yaml.dump writes, given as
\* its lines: blank lines mean nothing, the first line holds the top-level
\* key, the items of its list follow at column 0.
safe_load(text) ==
    LET IsNotBlank(line) == line # ""
        lines == SelectSeq(text, IsNotBlank)
    IN KeyNode(lines[1], load_items(lines, 2, 0).v)

InitCli ==
    /\ disk \in {Dump(tree) : tree \in SmallHierarchies}
    /\ dry_run \in BOOLEAN
    /\ pc = "start"
    /\ writes = 0
    /\ tags = Unloaded
    /\ tags_file = <<"">>
    /\ document = <<>>
    /\ last = Loaded
    /\ nops = 0
    /\ arg = <<>>

\* tags.py line 110-111: TagHierachy(args.file), which ends in load_tags.
CliLoad ==
    /\ pc = "start"
    /\ tags' = safe_load(disk)
    /\ tags_file' = disk
    /\ last' = [Loaded EXCEPT !.pre = tags', !.file = tags_file']
    /\ pc' = "loaded"
    /\ UNCHANGED <<nops, arg, document, disk, dry_run, writes>>

\* The requested operation has been called with Tag(args.tag) and has left
\* the object as r.tags, r.tags_file, the Tag as held, and has returned
\* ret or raised err.
Ran(op, tag, new, r, held, ret) ==
    /\ tags' = r.tags
    /\ tags_file' = r.tags_file
    /\ last' = Call(op, tag, new, r.err, ret)
    /\ arg' = held
    /\ nops' = nops + 1
    /\ pc' = IF r.err = "" THEN "ran" ELSE "raised"
    /\ UNCHANGED <<document, disk, dry_run, writes>>

\* An operation that leaves the object as it is.
Kept(err) == [tags |-> tags, tags_file |-> tags_file, err |-> err]

\* tags.py lines 113-117
CliListTags ==
    /\ pc = "loaded"
    /\ \E fully_qualified \in BOOLEAN :
         IF fully_qualified
         THEN Ran("list_tags", <<>>, <<>>, Kept(""), <<>>, list_tags(tags))
         ELSE LET r == list_tags_short_paths(tags)
              IN Ran("list_tags_short_paths", <<>>, <<>>, Kept(r.err), <<>>,
                     r.ret)

\* tags.py lines 126-127
CliListChildTags ==
    /\ pc = "loaded"
    /\ \E tag \in Tags :
         Ran("list_child_tags", tag, <<>>, Kept(""), tag,
             list_child_tags(tags, tag))

\* tags.py lines 129-130
CliIsLeafTagAmbiguous ==
    /\ pc = "loaded"
    /\ \E tag \in Tags :
         Ran("is_leaf_tag_ambiguous", tag, <<>>, Kept(""), tag,
             is_leaf_tag_ambiguous(tags, tag))

\* tags.py lines 132-133
CliTryShortenTagPath ==
    /\ pc = "loaded"
    /\ \E tag \in Tags :
         Ran("try_shorten_tag_path", tag, <<>>, Kept(""), tag,
             try_shorten_tag_path(tags, tag))

\* tags.py lines 137-138
CliLint ==
    /\ pc = "loaded"
    /\ LET r == lint(tags)
       IN Ran("lint", <<>>, <<>>,
              [tags |-> r.tags, tags_file |-> r.tags_file, err |-> ""],
              <<>>, <<>>)

\* tags.py lines 140-144
CliAddTag ==
    /\ pc = "loaded"
    /\ \E tag \in Tags :
         LET r == add_tag(tags, tags_file, tag)
         IN Ran("add_tag", tag, <<>>, r, r.tag, <<>>)

\* tags.py lines 146-150
CliRemoveTag ==
    /\ pc = "loaded"
    /\ \E tag \in Tags :
         LET r == remove_tag(tags, tags_file, tag)
         IN Ran("remove_tag", tag, <<>>, r, r.tag, <<>>)

\* tags.py lines 152-158
CliRenameTag ==
    /\ pc = "loaded"
    /\ \E old_name \in Tags, new_name \in Names :
         LET r == rename_tag(tags, tags_file, old_name, <<new_name>>)
         IN Ran("rename_tag", old_name, <<new_name>>, r, r.tag, <<>>)

\* A run with --dry_run that writes all the same.
SavesAlways(dry) == TRUE

\* tags.py line 160: `if not args.dry_run`
Saves(dry) == ~dry

\* tags.py lines 160-161 and safe_tags: the file is opened for writing and
\* self.tags_file is written.
CliSafeTags ==
    /\ pc = "ran"
    /\ Saves(dry_run)
    /\ disk' = tags_file
    /\ writes' = writes + 1
    /\ pc' = "done"
    /\ UNCHANGED <<object, last, nops, arg, document, dry_run>>

\* tags.py lines 162-163: print(tag_hierachy.tags_file)
CliPrintTagsFile ==
    /\ pc = "ran"
    /\ ~Saves(dry_run)
    /\ pc' = "done"
    /\ UNCHANGED <<object, last, nops, arg, document, disk, dry_run, writes>>

NextCli ==
    \/ CliLoad
    \/ CliListTags
    \/ CliListChildTags
    \/ CliIsLeafTagAmbiguous
    \/ CliTryShortenTagPath
    \/ CliLint
    \/ CliAddTag
    \/ CliRemoveTag
    \/ CliRenameTag
    \/ CliSafeTags
    \/ CliPrintTagsFile

SpecCli == InitCli /\ [][NextCli]_vars

(***************************************************************************)
(* A document and the three operations of DocumentTagHandler that change   *)
(* it.  Here `writes` counts the times the document is opened for writing. *)
(***************************************************************************)
RECURSIVE EntryLists(_)
\* n tags, separated by commas.
EntryLists(n) ==
    IF n = 1 THEN Names
    ELSE {entries \o "," \o name : entries \in EntryLists(n - 1), name \in Names}

\* The lines of a document, without line break.
DocLines == {"# Tags", "text"} \cup UNION {EntryLists(n) : n \in 1..MaxEntries}

RECURSIVE DocsOfLen(_)
DocsOfLen(n) ==
    IF n = 0 THEN {<<>>}
    ELSE {Append(lines, line) : lines \in DocsOfLen(n - 1), line \in DocLines}

\* The documents: every line ends with a line break, the last one may not.
Documents ==
    LET texts == UNION {DocsOfLen(n) : n \in 1..MaxDocLines}
    IN {[i \in 1..Len(d) |-> d[i] \o "\n"] : d \in texts}
       \cup {[i \in 1..Len(d) |-> IF i < Len(d) THEN d[i] \o "\n" ELSE d[i]]
              : d \in texts}

\* The tags given on the command line for a document.
DocTags == {<<name>> : name \in Names}

InitDoc ==
    /\ document \in Documents
    /\ dry_run \in BOOLEAN
    /\ tags = Dict("tags", List(<<>>))
    /\ tags_file = Dump(tags)
    /\ last = Loaded
    /\ nops = 0
    /\ arg = <<>>
    /\ disk = tags_file
    /\ pc = "library"
    /\ writes = 0

DocumentRemoveTag ==
    /\ nops < MaxOps
    /\ \E tag \in DocTags :
         LET r == document_remove_tag(document, tag, dry_run) IN
         /\ document' = r.document
         /\ writes' = writes + r.writes
         /\ last' = Call("document_remove_tag", tag, <<>>, "", <<>>)
         /\ arg' = tag
    /\ nops' = nops + 1
    /\ UNCHANGED <<object, disk, dry_run, pc>>

DocumentRenameTag ==
    /\ nops < MaxOps
    /\ \E old_name \in DocTags, new_name \in DocTags :
         LET r == document_rename_tag(document, old_name, new_name, dry_run) IN
         /\ document' = r.document
         /\ writes' = writes + r.writes
         /\ last' = Call("document_rename_tag", old_name, new_name, "", <<>>)
         /\ arg' = old_name
    /\ nops' = nops + 1
    /\ UNCHANGED <<object, disk, dry_run, pc>>

DocumentAddTag ==
    /\ nops < MaxOps
    /\ \E tag \in DocTags :
         LET r == document_add_tag(document, tag, dry_run) IN
         /\ document' = r.document
         /\ writes' = writes + r.writes
         /\ last' = Call("document_add_tag", tag, <<>>, "", <<>>)
         /\ arg' = tag
    /\ nops' = nops + 1
    /\ UNCHANGED <<object, disk, dry_run, pc>>

NextDoc ==
    \/ DocumentRemoveTag
    \/ DocumentRenameTag
    \/ DocumentAddTag

SpecDoc == InitDoc /\ [][NextDoc]_vars

(***************************************************************************)
(* The object and its operations on short tag paths.                       *)
(***************************************************************************)
IsLeafTagAmbiguous ==
    /\ nops < MaxOps
    /\ \E tag \in Tags :
         /\ last' = Call("is_leaf_tag_ambiguous", tag, <<>>, "",
                         is_leaf_tag_ambiguous(tags, tag))
         /\ arg' = tag
    /\ nops' = nops + 1
    /\ UNCHANGED <<object, document, invocation>>

TryShortenTagPath ==
    /\ nops < MaxOps
    /\ \E tag \in Tags :
         /\ last' = Call("try_shorten_tag_path", tag, <<>>, "",
                         try_shorten_tag_path(tags, tag))
         /\ arg' = tag
    /\ nops' = nops + 1
    /\ UNCHANGED <<object, document, invocation>>

ListTagsShortPaths ==
    /\ nops < MaxOps
    /\ LET r == list_tags_short_paths(tags)
       IN last' = Call("list_tags_short_paths", <<>>, <<>>, r.err, r.ret)
    /\ nops' = nops + 1
    /\ UNCHANGED <<object, arg, document, invocation>>

NextShort ==
    \/ IsLeafTagAmbiguous
    \/ TryShortenTagPath
    \/ ListTagsShortPaths

SpecShort == Init /\ [][NextShort]_vars

(***************************************************************************)
(* The object and its three canonicalising operations.                     *)
(***************************************************************************)
ReorderListItems ==
    /\ nops < MaxOps
    /\ LET r == reorder_list_items(tags) IN
         /\ tags' = r.tags
         /\ tags_file' = r.tags_file
    /\ last' = Call("reorder_list_items", <<>>, <<>>, "", <<>>)
    /\ nops' = nops + 1
    /\ UNCHANGED <<arg, document, invocation>>

AddBlankLines ==
    /\ nops < MaxOps
    /\ tags_file' = add_blank_lines(tags_file)
    /\ last' = Call("add_blank_lines", <<>>, <<>>, "", <<>>)
    /\ nops' = nops + 1
    /\ UNCHANGED <<tags, arg, document, invocation>>

Lint ==
    /\ nops < MaxOps
    /\ LET r == lint(tags) IN
         /\ tags' = r.tags
         /\ tags_file' = r.tags_file
    /\ last' = Call("lint", <<>>, <<>>, "", <<>>)
    /\ nops' = nops + 1
    /\ UNCHANGED <<arg, document, invocation>>

NextLint ==
    \/ ReorderListItems
    \/ AddBlankLines
    \/ Lint

SpecLint == Init /\ [][NextLint]_vars

NextText ==
    \/ TagToAddTag
    \/ TagToRenameTag
    \/ TagToRemoveTag
    \/ ReorderListItems

SpecText == InitText /\ [][NextText]_vars

(***************************************************************************)
(* add_blank_lines on a text that is assigned to self.tags_file, as the    *)
(* tests of the repository do.                                             *)
(***************************************************************************)
\* The lines of such a text: list markers at three depths, a key, a blank.
FileLines == {"", "tags:", "- a", "  - a", "    - a"}

RECURSIVE TextsOfLen(_)
TextsOfLen(n) ==
    IF n = 0 THEN {<<>>}
    ELSE {Append(text, line) : text \in TextsOfLen(n - 1), line \in FileLines}

\* str.split("\n") gives at least one line.
Texts == UNION {TextsOfLen(n) : n \in 1..MaxLines}

InitBlank ==
    /\ tags = Dict("tags", List(<<>>))
    /\ tags_file \in Texts
    /\ document = <<>>
    /\ last = Loaded
    /\ nops = 0
    /\ arg = <<>>
    /\ NoInvocation

NextBlank == AddBlankLines

SpecBlank == InitBlank /\ [][NextBlank]_vars

(***************************************************************************)
(* The hierarchy as the tree of Leaf and Group nodes it stands for: a str  *)
(* is a Leaf, {k: s} a Group with the one Leaf child s, {k: [...]} a       *)
(* Group with the list's items as children.  A tag addresses the node      *)
(* reached from the root list by taking, per component, the first child    *)
(* with that label.                                                        *)
(***************************************************************************)
Leaf(name) == [name |-> name, kind |-> "Leaf", kids |-> <<>>]

Group(name, kids) == [name |-> name, kind |-> "Group", kids |-> kids]

NoNode == [name |-> "", kind |-> "None", kids |-> <<>>]

RECURSIVE Abs(_)
Abs(node) ==
    IF node.t = "str" THEN Leaf(node.s)
    ELSE IF node.t = "dict"
    THEN IF node.v[1].t = "str" THEN Group(node.s, <<Leaf(node.v[1].s)>>)
         ELSE Group(node.s, Abs(node.v[1]))
    ELSE IF node.v = <<>> THEN <<>>
    ELSE <<Abs(Head(node.v))>> \o Abs(List(Tail(node.v)))

\* The tree of a value of self.tags; the top-level key labels its root.
Tree(hierarchy) == Abs(hierarchy)

FirstChild(kids, name) ==
    LET hits == {i \in 1..Len(kids) : kids[i].name = name}
    IN IF hits = {} THEN 0 ELSE CHOOSE i \in hits : \A j \in hits : i <= j

RECURSIVE NodeAt(_, _)
\* The node that the components comps address below node, or NoNode.
NodeAt(node, comps) ==
    IF comps = <<>> THEN node
    ELSE LET i == FirstChild(node.kids, comps[1])
         IN IF i = 0 THEN NoNode ELSE NodeAt(node.kids[i], Tail(comps))

Present(root, p) == NodeAt(root, p).kind # "None"

RECURSIVE ReplaceAt(_, _, _)
\* The tree with the node that comps address replaced by x.
ReplaceAt(node, comps, x) ==
    IF comps = <<>> THEN x
    ELSE LET i == FirstChild(node.kids, comps[1])
         IN [node EXCEPT !.kids[i] = ReplaceAt(@, Tail(comps), x)]

Without(kids, i) == SubSeq(kids, 1, i - 1) \o SubSeq(kids, i + 1, Len(kids))

RECURSIVE LeafPaths(_)
\* The label sequences that lead from below node to a Leaf.
LeafPaths(node) ==
    UNION {LET kid == node.kids[i]
           IN IF kid.kind = "Leaf" THEN {<<kid.name>>}
              ELSE {<<kid.name>> \o q : q \in LeafPaths(kid)}
           : i \in 1..Len(node.kids)}

\* The non-empty prefixes of a set of label sequences.
Prefixes(paths) == UNION {{SubSeq(q, 1, k) : k \in 1..Len(q)} : q \in paths}

RECURSIVE TwinFree(_)
\* No children list of the tree holds two children with the same label.
TwinFree(node) ==
    /\ \A i, j \in 1..Len(node.kids) :
         node.kids[i].name = node.kids[j].name => i = j
    /\ \A i \in 1..Len(node.kids) : TwinFree(node.kids[i])

IsPrefix(p, q) == Len(p) <= Len(q) /\ SubSeq(q, 1, Len(p)) = p

\* The elements of a list, as a set.
Elements(list) == {list[i] : i \in 1..Len(list)}

(***************************************************************************)
(* The claims.  Each is stated about the latest call: `last` holds its     *)
(* arguments and the hierarchy before it, tags the hierarchy after it.     *)
(***************************************************************************)
Before == Tree(last.pre)

After == Tree(tags)

Inserted == last.op = "add_tag"

Renamed == last.op = "rename_tag"

Removed == last.op = "remove_tag"

\* The parents of the tag are all Groups and the tag itself is absent.
InsertableUnderGroups ==
    /\ \A k \in 0..Len(last.tag) - 1 :
         NodeAt(Before, SubSeq(last.tag, 1, k)).kind = "Group"
    /\ ~Present(Before, last.tag)

\* C1: insert(p), for p of any length whose proper prefixes are all Groups
\* and which is absent, appends p.leaf() as a Leaf child of exactly the node
\* that p.parents() address, and changes nothing else.
C1_InsertAppendsLeafAtParents ==
    (Inserted /\ InsertableUnderGroups) =>
        /\ last.err = ""
        /\ After = ReplaceAt(Before, get_parents(last.tag),
                             [NodeAt(Before, get_parents(last.tag))
                                EXCEPT !.kids = Append(@, Leaf(get_leaf(last.tag)))])

\* The lengths k of the prefixes of p.parents() that address a Leaf.
LeafParents ==
    {k \in 1..Len(last.tag) - 1 :
        NodeAt(Before, SubSeq(last.tag, 1, k)).kind = "Leaf"}

\* C2: insert(p) where a component of p.parents() is a Leaf promotes that
\* Leaf in place: afterwards a Group of the same name is at its position,
\* its siblings are as before, and p is present beneath it.
C2_InsertPromotesLeafParent ==
    (Inserted /\ LeafParents # {}) =>
        \A k \in LeafParents :
            LET up     == SubSeq(last.tag, 1, k - 1)
                was    == NodeAt(Before, up).kids
                is     == NodeAt(After, up).kids
                i      == FirstChild(was, last.tag[k])
            IN  /\ Len(is) = Len(was)
                /\ \A j \in 1..Len(was) : j # i => is[j] = was[j]
                /\ is[i].name = last.tag[k]
                /\ is[i].kind = "Group"
                /\ Present(After, last.tag)

\* C3: insert is idempotent on the enumerated path set: list_tags() after
\* insert(p); insert(p) is, as a set, list_tags() after one insert(p).
C3_InsertTwiceSamePaths ==
    (Inserted /\ last.err = "") =>
        LET again == add_tag(tags, tags_file, last.tag)
        IN Elements(list_tags(again.tags)) = Elements(list_tags(tags))

\* C4: from a hierarchy without equally labelled siblings, the operations
\* lead only to hierarchies without equally labelled siblings; inserting a
\* tag whose leaf exists under the terminal parent leaves that parent's
\* children as they were.
C4_SiblingsStayUnique ==
    /\ TwinFree(After)
    /\ (Inserted /\ Present(Before, last.tag)) =>
          NodeAt(After, get_parents(last.tag)).kids
              = NodeAt(Before, get_parents(last.tag)).kids

\* A component of p.parents() matches no child at its level: the prefix
\* before it addresses a Group (or the root list) and it is not among that
\* node's children.
ParentMissing ==
    \E k \in 1..Len(last.tag) - 1 :
        /\ NodeAt(Before, SubSeq(last.tag, 1, k - 1)).kind = "Group"
        /\ FirstChild(NodeAt(Before, SubSeq(last.tag, 1, k - 1)).kids,
                      last.tag[k]) = 0

\* C5: insert(p) with a component of p.parents() that matches no child at
\* its level reports an error and leaves the hierarchy unchanged.
C5_InsertMissingParentFails ==
    (Inserted /\ ParentMissing) => (last.err # "" /\ tags = last.pre)

\* C6: rename(old, new), old present and new of one component, gives the
\* new label to the first child labelled old.leaf() of the node that
\* old.parents() address, at its position and with its children, and
\* changes no other node.
C6_RenameChangesOneLabel ==
    (Renamed /\ Present(Before, last.tag)) =>
        /\ last.err = ""
        /\ After = ReplaceAt(Before, last.tag,
                             [NodeAt(Before, last.tag)
                                EXCEPT !.name = str(last.new)])

\* C7: rename(old, new) with old absent fails and leaves the hierarchy
\* unchanged.
C7_RenameAbsentFails ==
    (Renamed /\ ~Present(Before, last.tag)) =>
        (last.err # "" /\ tags = last.pre)

\* C8: remove(p), p present, deletes the first child labelled p.leaf() of
\* the node that p.parents() address, with its subtree, and nothing else.
C8_RemoveDeletesSubtree ==
    (Removed /\ Present(Before, last.tag)) =>
        LET parent == NodeAt(Before, get_parents(last.tag))
        IN  /\ last.err = ""
            /\ After = ReplaceAt(Before, get_parents(last.tag),
                                 [parent EXCEPT !.kids =
                                     Without(@, FirstChild(@, get_leaf(last.tag)))])

\* C9: list_tags() returns, without duplicates, exactly the non-empty
\* prefixes of the root-to-leaf paths, the top-level key not a component.
C9_ListTagsIsPrefixSet ==
    last.op = "list_tags" =>
        /\ \A i, j \in 1..Len(last.ret) : last.ret[i] = last.ret[j] => i = j
        /\ Elements(last.ret) = Prefixes(LeafPaths(Before))

\* C10: list_child_tags(parent) returns only paths that have parent's
\* components as a prefix.
C10_ListChildTagsUnderParent ==
    last.op = "list_child_tags" =>
        \A path \in Elements(last.ret) : IsPrefix(last.tag, path)

(***************************************************************************)
(* Canonicalisation.                                                       *)
(***************************************************************************)
IsLeaf(n) == n.kind = "Leaf"

IsGroup(n) == n.kind = "Group"

RECURSIVE StablePartition(_, _)
\* The node `is` is the node `was` with, in every children list from here
\* down, the Leaves before the Groups, the Leaves in the order they had,
\* and the Groups in the order they had.
StablePartition(was, is) ==
    LET leaves == SelectSeq(is.kids, IsLeaf)
        groups == SelectSeq(is.kids, IsGroup)
        before == SelectSeq(was.kids, IsGroup)
    IN  /\ is.name = was.name
        /\ is.kind = was.kind
        /\ is.kids = leaves \o groups
        /\ leaves = SelectSeq(was.kids, IsLeaf)
        /\ Len(groups) = Len(before)
        /\ \A i \in 1..Len(groups) : StablePartition(before[i], groups[i])

\* C11: reorder_list_items is a stable partition at every nesting level: in
\* every children list all Leaves precede all Groups, Leaves and Groups
\* each keep their relative order, and no node is added, removed or moved
\* to another list.
C11_ReorderIsStablePartition ==
    last.op = "reorder_list_items" => StablePartition(Before, After)

\* A reordering that moved a Leaf in front of a Group below the root list,
\* and left the root list in its order.
C11_ReorderedBelowRoot ==
    /\ last.op = "reorder_list_items"
    /\ After # Before
    /\ Len(After.kids) = Len(Before.kids)
    /\ \A i \in 1..Len(After.kids) : After.kids[i].name = Before.kids[i].name

\* C12: lint is idempotent: a second lint() leaves the hierarchy and the
\* text of tags_file as the first one left them; it inserts no further
\* blank line.
C12_LintTwiceSame ==
    last.op = "lint" =>
        LET again == lint(tags)
        IN  /\ again.tags = tags
            /\ again.tags_file = tags_file

\* A lint() that put a blank line into the text.
C12_LintedWithBlankLine ==
    /\ last.op = "lint"
    /\ tags_file # Dump(tags)
    /\ \E i \in 1..Len(tags_file) - 1 : tags_file[i] = ""

RECURSIVE BlankBeforeShallower(_, _, _)
\* The lines from i on, one blank line put before each line whose marker
\* column is less than depth, the marker column of the previous line that
\* has a marker (0: no such line yet).
BlankBeforeShallower(lines, i, depth) ==
    IF i > Len(lines) THEN <<>>
    ELSE LET cur == find(lines[i], "-")
         IN (IF cur # 0 /\ depth # 0 /\ cur < depth THEN <<"">> ELSE <<>>)
            \o <<lines[i]>>
            \o BlankBeforeShallower(lines, i + 1, IF cur # 0 THEN cur ELSE depth)

\* C13: add_blank_lines gives the lines it was given, in their order, with
\* exactly one blank line before each line whose marker column is less
\* than that of the previous non-blank marker line, and nothing else
\* changed: nothing before the first line.
C13_BlankLineBeforeShallower ==
    last.op = "add_blank_lines" =>
        tags_file = BlankBeforeShallower(last.file, 1, 0)

(***************************************************************************)
(* Short tag paths.                                                        *)
(***************************************************************************)
\* The paths of the hierarchy as the user writes them.
EnumeratedPaths == Prefixes(LeafPaths(Before))

\* Some other enumerated path holds p's leaf as a component and differs
\* from p at a position both have.
LeafElsewhere(p) ==
    \E q \in EnumeratedPaths :
        /\ q # p
        /\ get_leaf(p) \in Elements(q)
        /\ \E i \in 1..Len(p) : i <= Len(q) /\ q[i] # p[i]

\* C14: for a tag path p of the hierarchy, try_shorten_tag_path(p) is the
\* one component [p.leaf()] iff no other enumerated path holds p.leaf()
\* while differing from p at a position both have, and is p otherwise.
C14_ShortenedIffLeafUnique ==
    (last.op = "try_shorten_tag_path" /\ last.tag \in EnumeratedPaths) =>
        last.ret = IF LeafElsewhere(last.tag) THEN last.tag
                   ELSE <<get_leaf(last.tag)>>

\* C15: list_tags_short_paths() has one entry per path of list_tags(), in
\* the same order, each the path or its leaf alone, and no two paths get
\* the same entry.
C15_ShortFormsDistinct ==
    last.op = "list_tags_short_paths" =>
        LET paths == list_tags(last.pre) IN
        /\ last.err = ""
        /\ Len(last.ret) = Len(paths)
        /\ \A i \in 1..Len(paths) :
              last.ret[i] \in {paths[i], <<get_leaf(paths[i])>>}
        /\ \A i, j \in 1..Len(paths) : last.ret[i] = last.ret[j] => i = j

(***************************************************************************)
(* Documents.  The claims speak of the lines of the document: the text of  *)
(* the file, split at its line breaks.                                     *)
(***************************************************************************)
RECURSIVE SplitFrom(_, _, _, _)
\* The pieces of the text from position i on, cur the piece begun before i.
SplitFrom(text, sep, i, cur) ==
    IF i > Len(text) THEN <<cur>>
    ELSE IF Char(text, i) = sep
    THEN <<cur>> \o SplitFrom(text, sep, i + 1, "")
    ELSE SplitFrom(text, sep, i + 1, cur \o Char(text, i))

Split(text, sep) == SplitFrom(text, sep, 1, "")

RECURSIVE Join(_, _)
Join(pieces, sep) ==
    IF pieces = <<>> THEN ""
    ELSE IF Len(pieces) = 1 THEN pieces[1]
    ELSE pieces[1] \o sep \o Join(Tail(pieces), sep)

\* The entries without the first one that equals word.
WithoutFirst(entries, word) ==
    LET i == FirstChild([k \in 1..Len(entries) |-> [name |-> entries[k]]], word)
    IN IF i = 0 THEN entries
       ELSE SubSeq(entries, 1, i - 1) \o SubSeq(entries, i + 1, Len(entries))

LinesBefore == Split(writelines(last.doc), "\n")

LinesAfter == Split(writelines(document), "\n")

\* The tag-list line of the document the operation was called on, 0 when
\* the marker is absent or is the last line.
TagLine == find_tags_line(last.doc)

\* C16: remove_tag on a document with a tag-list line removes the first
\* whole entry that equals the tag, together with its separator: the other
\* entries stay, separated by single commas, none leading or trailing.
C16_RemoveDeletesOneWholeEntry ==
    (last.op = "document_remove_tag" /\ ~dry_run /\ TagLine # 0) =>
        /\ Len(LinesAfter) = Len(LinesBefore)
        /\ LinesAfter[TagLine] =
              Join(WithoutFirst(Split(LinesBefore[TagLine], ","),
                                str(last.tag)), ",")

\* C17: add_tag on a document with a tag-list line appends "," and the tag
\* to the end of the tag list on that line, whether or not a line break
\* ends the line.
C17_AddAppendsToTagLine ==
    (last.op = "document_add_tag" /\ ~dry_run /\ TagLine # 0) =>
        /\ Len(LinesAfter) = Len(LinesBefore)
        /\ LinesAfter[TagLine] = LinesBefore[TagLine] \o "," \o str(last.tag)

\* C18: add_tag, remove_tag and rename_tag on a document change at most
\* its tag-list line: every other line and the number of lines stay; when
\* the marker is absent or is the last line, the document is as it was
\* and nothing is written.
C18_OnlyTagLineChanges ==
    last.op \in {"document_add_tag", "document_remove_tag",
                 "document_rename_tag"} =>
        IF TagLine = 0 THEN document = last.doc /\ writes = 0
        ELSE /\ Len(LinesAfter) = Len(LinesBefore)
             /\ \A i \in 1..Len(LinesBefore) :
                   i # TagLine => LinesAfter[i] = LinesBefore[i]

(***************************************************************************)
(* Tag objects.                                                            *)
(***************************************************************************)
HandedOn == last.op \in {"add_tag", "rename_tag", "remove_tag"}

\* C19 as stated: a Tag never has zero components: remove_root_tag on a
\* Tag of one component fails with EmptyPath and leaves it, and a Tag
\* handed to add_tag, rename_tag or remove_tag has a component when they
\* return.
C19_TagNeverEmpty ==
    /\ (last.op = "remove_root_tag" /\ Len(last.tag) = 1) =>
          last.err = "EmptyPath" /\ Len(arg) >= 1
    /\ (HandedOn /\ Len(last.tag) >= 1) => Len(arg) >= 1

\* C19, amended: remove_root_tag on a Tag of one component returns without
\* an error and leaves a Tag of zero components; a Tag of at least one
\* component handed to add_tag, rename_tag or remove_tag still has at
\* least one component when they return.
C19_RootRemovalEmptiesTag ==
    /\ (last.op = "remove_root_tag" /\ Len(last.tag) = 1) =>
          last.err = "" /\ arg = <<>>
    /\ (HandedOn /\ Len(last.tag) >= 1) => Len(arg) >= 1

\* remove_root_tag has been called on a Tag of one component.
C19_RootOfOneComponentRemoved ==
    /\ last.op = "remove_root_tag"
    /\ Len(last.tag) = 1
    /\ arg = <<>>

(***************************************************************************)
(* The invocation of tags.py.                                              *)
(***************************************************************************)
\* C20: the tags file is written at most once, only when the requested
\* operation has returned without an error and --dry_run is not set: with
\* --dry_run it is never written, and after an error it is what it was.
C20_WrittenOnceAfterSuccess ==
    [][(disk' # disk \/ writes' # writes) =>
          /\ pc = "ran"
          /\ last.err = ""
          /\ ~dry_run
          /\ writes = 0
          /\ writes' = 1]_vars

\* An invocation that has added a tag and written the changed file.
C20_ChangedFileWritten ==
    /\ pc = "done"
    /\ last.op = "add_tag"
    /\ writes = 1
    /\ disk # last.file
    /\ disk = tags_file

\* C21: lint() keeps the taxonomy.  The set of paths list_tags() returns is
\* the same for the hierarchy before lint() and the one after it, and the
\* hierarchy that decoding self.tags_file gives, blank lines and all, has
\* that same set of paths.
C21_LintKeepsPaths ==
    last.op = "lint" =>
        /\ Elements(list_tags(tags)) = Elements(list_tags(last.pre))
        /\ Elements(list_tags(safe_load(tags_file)))
               = Elements(list_tags(last.pre))

\* A lint() of a hierarchy with a nested list, after which the text holds
\* a blank line between two items and decodes to the hierarchy.
C21_DecodedAcrossBlankLine ==
    /\ last.op = "lint"
    /\ \E i \in 2..Len(tags_file) - 1 :
           /\ tags_file[i] = ""
           /\ find(tags_file[i - 1], "-") > find(tags_file[i + 1], "-")
           /\ find(tags_file[i + 1], "-") > 0
    /\ safe_load(tags_file) = tags
    /\ Cardinality(Elements(list_tags(last.pre))) > 2

\* C22: the text and the hierarchy agree.  After load_tags() and after every
\* add_tag(), rename_tag(), remove_tag() or reorder_list_items() that
\* returns without an error, whatever branch it returned from, decoding
\* self.tags_file gives the hierarchy self.tags holds, so safe_tags() never
\* writes the text of an older hierarchy.
C22_TextDecodesToHierarchy ==
    (/\ last.err = ""
     /\ last.op \in {"load_tags", "add_tag", "rename_tag", "remove_tag",
                     "reorder_list_items"})
        => safe_load(tags_file) = tags

\* A mutation that returned without an error and changed the hierarchy:
\* the text is a new one and decodes to the new hierarchy.
C22_ChangedHierarchyDumped ==
    /\ last.op \in {"add_tag", "rename_tag", "reorder_list_items"}
    /\ last.err = ""
    /\ tags # last.pre
    /\ tags_file # last.file
    /\ safe_load(tags_file) = tags
====
